---- MODULE Spec2Model ----
(***************************************************************************)
(* Model of qlever.py, the QLever control script: the configuration store  *)
(* (Actions.__init__, set_config), the six actions and the dispatcher      *)
(* (main).                                                                 *)
(*                                                                         *)
(* Text.  Every Python string of the script is modelled as a sequence of   *)
(* atoms.  An atom is a TLA+ string that is either the single blank " ",   *)
(* a punctuation mark the script's patterns look at (".", "=", "-", "_",   *)
(* "'"), or a fragment without blanks that no pattern of the script looks  *)
(* into.  Python's string concatenation and f-strings are \o, the empty    *)
(* string is << >>.                                                        *)
(***************************************************************************)
EXTENDS Integers, Sequences, FiniteSets, TLC

VARIABLES
    qleverfile,     \* the parsed Qleverfile.NEW, before default injection
    config,         \* Actions.config
    stage,          \* position of the process: see Init / InitLoad
    argv,           \* sys.argv[1:] as given by the operator
    idx,            \* number of tokens of argv that main has consumed
    only_show,      \* main's only_show
    log_level,      \* log.level
    exit_code,      \* "none" while the process runs, then "0" or "1"
    net_connections_enabled, docker_enabled, binaries_work,
                    \* the fields check_installation sets
    files,          \* host: file name -> [content, gb]
    procs,          \* host: the process table, in process_iter() order
    containers,     \* host: the docker containers
    listeners,      \* host: ports (integers) some other process listens on
    docker_up,      \* host: the docker daemon answers
    bin_installed,  \* host: ServerMain / IndexBuilderMain are on the PATH
    start_port,     \* action_start's local `port` while it polls
    tail_running,   \* host: action_start's tail -f subprocess is alive
    history         \* one record per token main has dealt with

cfgvars  == <<qleverfile, config>>
envvars  == <<net_connections_enabled, docker_enabled, binaries_work>>
host     == <<files, procs, containers, listeners, docker_up, bin_installed,
              tail_running>>
mainvars == <<stage, argv, idx, only_show, log_level, exit_code, start_port,
              history>>
vars     == <<cfgvars, envvars, host, mainvars>>

-----------------------------------------------------------------------------
(* Text helpers *)

SP == " "

\* str.startswith
StartsWith(text, prefix) ==
    /\ Len(prefix) <= Len(text)
    /\ SubSeq(text, 1, Len(prefix)) = prefix

\* str.replace(old, new) for a one-atom `old`
RECURSIVE Replace(_, _, _)
Replace(text, old, new) ==
    IF text = << >> THEN << >>
    ELSE (IF Head(text) = old THEN new ELSE <<Head(text)>>)
         \o Replace(Tail(text), old, new)

\* the atoms of `text` from position i to the end
From(text, i) == SubSeq(text, i, Len(text))

\* True iff text[i..j] contains no blank (what \S+ and [^ ]* may consume)
NoBlank(text, i, j) == \A k \in i..j : text[k] # SP

\* Atoms that are not matched by the regular expression \w
NonWord == {SP, ".", "=", "-", "'", "$x", "$$", "$", "/data/", ".bak", "|",
            ">", "&"}
IsWord(atom) == atom \notin NonWord

-----------------------------------------------------------------------------
(* Configuration store: ConfigParser with a DEFAULT section *)

\* A configuration is [default |-> option -> text, sect |-> section -> (option -> text)].
NoOptions == [o \in {} |-> << >>]

\* ConfigParser.has_section: DEFAULT is not a section.
HasSection(cfg, section) == section \in DOMAIN cfg.sect

\* `option in self.config[section]`: the section's own options and DEFAULT's.
Options(cfg, section) == DOMAIN cfg.sect[section] \cup DOMAIN cfg.default

\* ConfigParser.has_option, on an option name that is already lower case.
HasOption(cfg, section, option) ==
    HasSection(cfg, section) /\ option \in Options(cfg, section)

\* ExtendedInterpolation.before_get on a stored value: the escape $$ is
\* read as one $.
Interpolate(value) ==
    [k \in 1..Len(value) |-> IF value[k] = "$$" THEN "$" ELSE value[k]]

\* self.config[section][option]: the section's value, else DEFAULT's, as
\* the interpolation reads it.
Get(cfg, section, option) ==
    Interpolate(IF option \in DOMAIN cfg.sect[section]
                THEN cfg.sect[section][option]
                ELSE cfg.default[option])

\* self.config[section].get(option): None (here << >>, both falsy) if absent.
GetOrNone(cfg, section, option) ==
    IF HasOption(cfg, section, option) THEN Get(cfg, section, option) ELSE << >>

\* Mutant of Put: the value is stored in DEFAULT, for every section.
PutInDefault(cfg, section, option, value) ==
    [cfg EXCEPT !.default =
        [o \in DOMAIN cfg.default \cup {option} |->
            IF o = option THEN value ELSE cfg.default[o]]]

\* self.config[section][option] = value
Put(cfg, section, option, value) ==
    [cfg EXCEPT !.sect[section] =
        [o \in DOMAIN cfg.sect[section] \cup {option} |->
            IF o = option THEN value ELSE cfg.sect[section][o]]]

\* The (section, option) keys of the merged view: for every section, the
\* options ConfigParser reports for it.
Keys(cfg) == [s \in DOMAIN cfg.sect |-> Options(cfg, s)]

\* self.config['DEFAULT']['name']
NameOf(cfg) == cfg.default["name"]

yes_values == {<<"1">>, <<"true">>, <<"yes">>}

\* The table `defaults` of Actions.__init__.
Defaults(name) ==
    [general |-> [log_level |-> <<"info">>],
     server  |-> [binary |-> <<"ServerMain">>,
                  num_threads |-> <<"8">>,
                  cache_max_size_gb |-> <<"5">>,
                  cache_max_size_gb_single_entry |-> <<"1">>,
                  cache_max_num_entries |-> <<"100">>,
                  with_text_index |-> <<"no">>,
                  only_pso_and_pos_permutations |-> <<"no">>,
                  no_patterns |-> <<"no">>],
     index   |-> [binary |-> <<"IndexBuilderMain">>,
                  with_text_index |-> <<"no">>,
                  only_pso_and_pos_permutations |-> <<"no">>,
                  no_patterns |-> <<"no">>],
     docker  |-> [image |-> <<"adfreiburg/qlever">>,
                  container_server |-> <<"qlever.server.">> \o name,
                  container_indexer |-> <<"qlever.indexer.">> \o name],
     ui      |-> [port |-> <<"7000">>]]

\* Mutant of MergeSection: a section that had to be created is left empty
\* (its options are filled only by a later merge).
MergeSectionSkipNew(cfg, section, table) ==
    IF ~HasSection(cfg, section) THEN NoOptions
    ELSE [o \in DOMAIN cfg.sect[section] \cup
                {d \in DOMAIN table : GetOrNone(cfg, section, d) = << >>} |->
            IF o \in DOMAIN table /\ GetOrNone(cfg, section, o) = << >>
            THEN table[o] ELSE cfg.sect[section][o]]

\* One round of the loop `for section in defaults`: the options of `section`
\* after the inner loop `for option in defaults[section]`.
MergeSection(cfg, section, table) ==
    LET own  == IF HasSection(cfg, section) THEN cfg.sect[section] ELSE NoOptions
        base == [default |-> cfg.default,
                 sect |-> [s \in DOMAIN cfg.sect \cup {section} |->
                              IF s = section THEN own ELSE cfg.sect[s]]]
        needs(o) == GetOrNone(base, section, o) = << >>
    IN  [o \in DOMAIN own \cup {d \in DOMAIN table : needs(d)} |->
            IF o \in DOMAIN table /\ needs(o) THEN table[o] ELSE own[o]]

\* Default injection of Actions.__init__ (the sections are independent of
\* each other, so the loop over them is a pointwise map).
InjectDefaults(cfg) ==
    LET table == Defaults(NameOf(cfg))
    IN  [default |-> cfg.default,
         sect |-> [s \in DOMAIN cfg.sect \cup DOMAIN table |->
                      IF s \in DOMAIN table
                      THEN MergeSection(cfg, s, table[s])
                      ELSE cfg.sect[s]]]

-----------------------------------------------------------------------------
(* Command rendering *)

\* Atoms that make shlex.quote put its argument in quotes.
UnsafeAtoms == {SP, "'", "|", ">", "&", "2>&1", "$x", "$", "$(id", "-u):$(id",
                "-g)"}

\* Mutant of Quote: the text is passed on as it is.
QuoteNone(text) == text

\* shlex.quote
Quote(text) ==
    IF text = << >> THEN <<"'", "'">>
    ELSE IF \A k \in 1..Len(text) : text[k] \notin UnsafeAtoms THEN text
    ELSE <<"'">> \o Replace(text, "'", <<"'", "\"", "'", "\"", "'">>) \o <<"'">>

\* str.split(): the blank-separated words of a text
RECURSIVE Split(_)
Split(text) ==
    IF text = << >> THEN << >>
    ELSE IF Head(text) = SP THEN Split(Tail(text))
    ELSE LET n == IF \E k \in 1..Len(text) : text[k] = SP
                  THEN (CHOOSE k \in 1..Len(text) :
                          text[k] = SP /\ NoBlank(text, 1, k - 1)) - 1
                  ELSE Len(text)
         IN  <<SubSeq(text, 1, n)>> \o Split(From(text, n + 1))

\* glob.glob(path) for a path without wildcard: the file itself if it exists
GlobLiteral(fs, path) == IF path \in DOMAIN fs THEN {path} ELSE {}

\* glob.glob(f"{name}.index.*")
GlobIndexFiles(fs, name) ==
    {f \in DOMAIN fs : StartsWith(f, name \o <<".index.">>)}

RECURSIVE SumGB(_, _)
SumGB(fs, names) ==
    IF names = {} THEN 0
    ELSE LET f == CHOOSE f \in names : TRUE
         IN  fs[f].gb + SumGB(fs, names \ {f})

\* Actions.get_total_file_size, in whole GB
RECURSIVE get_total_file_size(_, _)
get_total_file_size(fs, paths) ==
    IF paths = << >> THEN 0
    ELSE SumGB(fs, GlobLiteral(fs, Head(paths)))
         + get_total_file_size(fs, Tail(paths))

UlimitThresholdGB == 10

\* The command line action_index builds.
IndexCmdline(cfg, fs) ==
    LET name == NameOf(cfg)
        ix(o) == Get(cfg, "index", o)
        c1 == ix("cat_files") \o <<SP, "|", SP>> \o ix("binary")
              \o <<SP, "-F", SP, "ttl", SP, "-f", SP, "-">>
              \o <<SP, "-i", SP>> \o name
              \o <<SP, "-s", SP>> \o name \o <<".settings.json">>
        c2 == IF ix("only_pso_and_pos_permutations") \in yes_values
              THEN c1 \o <<SP, "--only-pso-and-pos-permutations", SP, "--no-patterns">>
              ELSE c1
        c3 == IF ix("with_text_index") \in
                    {<<"from_text_records">>, <<"from_text_records_and_literals">>}
              THEN c2 \o <<SP, "-w", SP>> \o name \o <<".wordsfile.tsv">>
                      \o <<SP, "-d", SP>> \o name \o <<".docsfile.tsv">>
              ELSE c2
        c4 == IF ix("with_text_index") \in
                    {<<"from_literals">>, <<"from_text_records_and_literals">>}
              THEN c3 \o <<SP, "--text-words-from-literals">>
              ELSE c3
        c5 == IF "stxxl_memory_gb" \in Options(cfg, "index")
              THEN c4 \o <<SP, "--stxxl-memory-gb", SP>> \o ix("stxxl_memory_gb")
              ELSE c4
        c6 == c5 \o <<SP, "|", SP, "tee", SP>> \o name \o <<".index-log.txt">>
        c7 == IF get_total_file_size(fs, Split(ix("file_names"))) > UlimitThresholdGB
              THEN <<"ulimit", SP, "-Sn", SP, "1048576;", SP>> \o c6
              ELSE c6
    IN  IF Get(cfg, "docker", "use_docker") \in yes_values
        THEN <<"docker", SP, "run", SP, "-it", SP, "--rm", SP, "-u", SP,
               "$(id", SP, "-u):$(id", SP, "-g)",
               SP, "-v", SP, "/etc/localtime:/etc/localtime:ro",
               SP, "-v", SP, "$(pwd):/index", SP, "-w", SP, "/index",
               SP, "--entrypoint", SP, "bash",
               SP, "--name", SP>> \o Get(cfg, "docker", "container_indexer")
             \o <<SP>> \o Get(cfg, "docker", "image")
             \o <<SP, "-c", SP>> \o Quote(c7)
        ELSE c7

\* The server invocation of action_start, before the backend is chosen.
ServerCmdline(cfg) ==
    LET name == NameOf(cfg)
        sv(o) == Get(cfg, "server", o)
        c1 == sv("binary")
              \o <<SP, "-i", SP>> \o name
              \o <<SP, "-j", SP>> \o sv("num_threads")
              \o <<SP, "-p", SP>> \o sv("port")
              \o <<SP, "-m", SP>> \o sv("memory_for_queries_gb")
              \o <<SP, "-c", SP>> \o sv("cache_max_size_gb")
              \o <<SP, "-e", SP>> \o sv("cache_max_size_gb_single_entry")
              \o <<SP, "-k", SP>> \o sv("cache_max_num_entries")
        c2 == IF sv("access_token") # << >>
              THEN c1 \o <<SP, "-a", SP>> \o sv("access_token") ELSE c1
        c3 == IF sv("only_pso_and_pos_permutations") \in yes_values
              THEN c2 \o <<SP, "--only-pso-and-pos-permutations">> ELSE c2
        c4 == IF sv("no_patterns") \in yes_values
              THEN c3 \o <<SP, "--no-patterns">> ELSE c3
        c5 == IF sv("with_text_index") \in
                    {<<"from_text_records">>, <<"from_literals">>,
                     <<"from_text_records_and_literals">>}
              THEN c4 \o <<SP, "-t">> ELSE c4
    IN  c5 \o <<SP, ">", SP>> \o name \o <<".server-log.txt", SP, "2>&1">>

\* The command line action_start builds.
StartCmdline(cfg) ==
    IF Get(cfg, "docker", "use_docker") \in yes_values
    THEN <<"docker", SP, "run", SP, "-d", SP, "--restart=unless-stopped",
           SP, "-u", SP, "$(id", SP, "-u):$(id", SP, "-g)",
           SP, "-it", SP, "-v", SP, "/etc/localtime:/etc/localtime:ro",
           SP, "-v", SP, "$(pwd):/index",
           SP, "-p", SP>> \o Get(cfg, "server", "port") \o <<":">>
                          \o Get(cfg, "server", "port")
         \o <<SP, "-w", SP, "/index", SP, "--entrypoint", SP, "bash",
              SP, "--name", SP>> \o Get(cfg, "docker", "container_server")
         \o <<SP>> \o Get(cfg, "docker", "image")
         \o <<SP, "-c", SP>> \o Quote(ServerCmdline(cfg))
    ELSE <<"nohup", SP>> \o ServerCmdline(cfg) \o <<SP, "&">>

\* re.match(cmdline_regex, cmdline) of action_stop, with cmdline_regex =
\* f"{binary}\\S+ -i [^ ]*{name}": the binary at the start, at least one
\* non-blank atom, " -i ", any number of non-blank atoms, the name.
StopMatches(cfg, cmdline) ==
    LET binary == Get(cfg, "server", "binary")
        name   == NameOf(cfg)
        b      == Len(binary)
    IN  /\ StartsWith(cmdline, binary)
        /\ \E i \in (b + 1)..Len(cmdline) :
             /\ NoBlank(cmdline, b + 1, i)
             /\ i + 3 <= Len(cmdline)
             /\ SubSeq(cmdline, i + 1, i + 3) = <<SP, "-i", SP>>
             /\ \E j \in (i + 3)..Len(cmdline) :
                  /\ NoBlank(cmdline, i + 4, j)
                  /\ StartsWith(From(cmdline, j + 1), name)

\* re.match("^(ServerMain|IndexBuilderMain)", cmdline) of action_status
StatusMatches(cmdline) ==
    cmdline # << >> /\ Head(cmdline) \in {"ServerMain", "IndexBuilderMain"}

-----------------------------------------------------------------------------
(* The host: what the opaque commands do *)

\* The atom that ends a quoted or substituted stretch of a command line
mode_closes(mode, a) ==
    \/ mode = "single" /\ a = "'"
    \/ mode = "double" /\ a = "\""
    \/ mode = "subst" /\ a = "-g)"

\* The shell reading a command line, one atom at a time: blanks separate
\* words except inside '...', "..." and $(...); the quotes themselves are
\* removed.
ShellStep(st, a) ==
    LET word == [st EXCEPT !.cur = st.cur \o <<a>>, !.started = TRUE]
    IN  IF st.mode = "plain"
        THEN IF a = SP
             THEN [mode |-> "plain", cur |-> << >>, started |-> FALSE,
                   words |-> IF st.started THEN Append(st.words, st.cur)
                             ELSE st.words]
             ELSE IF a = "'" THEN [st EXCEPT !.mode = "single", !.started = TRUE]
             ELSE IF a = "\"" THEN [st EXCEPT !.mode = "double", !.started = TRUE]
             ELSE IF a = "$(id" THEN [word EXCEPT !.mode = "subst"]
             ELSE word
        ELSE IF mode_closes(st.mode, a)
        THEN IF st.mode = "subst" THEN [word EXCEPT !.mode = "plain"]
             ELSE [st EXCEPT !.mode = "plain"]
        ELSE word

\* The shell's state after the atoms lo..hi of a command line, read from
\* the state st
RECURSIVE ShellParse(_, _, _, _)
ShellParse(text, lo, hi, st) ==
    IF lo > hi THEN st
    ELSE IF lo = hi THEN ShellStep(st, text[lo])
    ELSE LET mid  == (lo + hi) \div 2
             left == ShellParse(text, lo, mid, st)
         IN  IF left.mode = "" THEN left
             ELSE ShellParse(text, mid + 1, hi, left)

\* The words into which the shell splits a command line
ShellWords(text) ==
    LET end == ShellParse(text, 1, Len(text),
                          [mode |-> "plain", cur |-> << >>, started |-> FALSE,
                           words |-> << >>])
    IN  IF end.started THEN Append(end.words, end.cur) ELSE end.words

\* position of the first occurrence of `atom` in `text` (0 if there is none)
IndexOfAtom(text, atom) ==
    IF \E i \in 1..Len(text) : text[i] = atom
    THEN CHOOSE i \in 1..Len(text) :
            text[i] = atom /\ \A k \in 1..(i - 1) : text[k] # atom
    ELSE 0

\* the word that follows the option `flag` on a command line
ArgAfter(text, flag) == Head(Split(From(text, IndexOfAtom(text, flag) + 2)))

\* psutil's " ".join(cmdline) of the process that the shell starts for
\* "nohup <argv> > <log> 2>&1 &"
NativeArgv(cmdline) == SubSeq(cmdline, 3, IndexOfAtom(cmdline, ">") - 2)

\* the host port of "docker run ... -p <port>:<port> ..."
PublishedPort(cmdline) ==
    LET word == ArgAfter(cmdline, "-p")
    IN  SubSeq(word, 1, IndexOfAtom(word, ":") - 1)

NextPid(ps) ==
    IF ps = << >> THEN 1
    ELSE 1 + (CHOOSE m \in {ps[k].pid : k \in 1..Len(ps)} :
                \A k \in 1..Len(ps) : ps[k].pid <= m)

\* the decimal text of a port number
PortText(n) == IF n = 7001 THEN <<"7001">> ELSE <<"7002">>

\* Mutant of alive_check: a server that was launched counts as answering
\* before it is ready.
alive_checkLaunched(ps, cs, port) ==
    \/ \E k \in 1..Len(ps) : ps[k].port = port
    \/ \E c \in cs : c.port = port

\* What `curl -s http://localhost:{port}/ping` finds: Actions.alive_check
alive_check(ps, cs, port) ==
    \/ \E k \in 1..Len(ps) : ps[k].ready /\ ps[k].port = port
    \/ \E c \in cs : c.ready /\ c.port = port

\* The file a command creates or truncates
Touch(fs, f, content, gb) ==
    [g \in DOMAIN fs \cup {f} |->
        IF g = f THEN [content |-> content, gb |-> gb] ELSE fs[g]]

RemoveAt(seq, i) == SubSeq(seq, 1, i - 1) \o SubSeq(seq, i + 1, Len(seq))

-----------------------------------------------------------------------------
(* Decisions of the actions, as functions of what they read *)

\* Python's `port in [conn.laddr.port for conn in psutil.net_connections()]`
\* with `port` a str (a ConfigParser value) and laddr.port an int: a str is
\* never equal to an int.
PyEqStrInt(text, n) == FALSE
PortInConnections(port, ports) == \E n \in ports : PyEqStrInt(port, n)

\* Mutant of StartPrecondition: the liveness probe is made only when the
\* port scan is available.
StartPreconditionNested(alive, scan_enabled, port, ports) ==
    IF scan_enabled /\ alive THEN "already running"
    ELSE IF scan_enabled /\ PortInConnections(port, ports) THEN "port in use"
    ELSE "launch"

\* The two checks of action_start before os.system(cmdline)
StartPrecondition(alive, scan_enabled, port, ports) ==
    IF alive THEN "already running"
    ELSE IF scan_enabled /\ PortInConnections(port, ports) THEN "port in use"
    ELSE "launch"

\* Mutant of IndexFilesExist: looks for the file <name>.index only.
IndexFilesExistExact(fs, name) == (name \o <<".index">>) \in DOMAIN fs

\* `if glob.glob(f"{self.name}.index.*")` of action_index
IndexFilesExist(fs, name) == GlobIndexFiles(fs, name) # {}

Unbound == [bound |-> FALSE, text |-> << >>]
Bound(text) == [bound |-> TRUE, text |-> text]

\* The loop `for proc in psutil.process_iter()` of action_stop from process
\* i on, with `cur` the value of the local variable cmdline (unbound before
\* its first assignment; it keeps its value when as_dict or join raises).
RECURSIVE StopScan(_, _, _, _)
StopScan(cfg, ps, i, cur) ==
    IF i > Len(ps) THEN [res |-> "none", at |-> 0]
    ELSE LET now == IF ps[i].readable THEN Bound(ps[i].cmdline) ELSE cur
         IN  IF ~now.bound THEN [res |-> "NameError", at |-> i]
             ELSE IF StopMatches(cfg, now.text)
             THEN [res |-> IF ps[i].killable THEN "killed" ELSE "kill failed",
                   at |-> i]
             ELSE StopScan(cfg, ps, i + 1, now)

\* Mutant of StatusRows: every process is listed.
StatusRowsAll(ps) == [k \in 1..Len(ps) |-> ps[k].pid]

\* The loop of action_status: the pids of the rows it prints
RECURSIVE StatusRows(_)
StatusRows(ps) ==
    IF ps = << >> THEN << >>
    ELSE (IF Head(ps).readable /\ StatusMatches(Head(ps).cmdline)
          THEN <<Head(ps).pid>> ELSE << >>) \o StatusRows(Tail(ps))

-----------------------------------------------------------------------------
(* The dispatcher: main *)

\* str.lower / str.upper on the atoms that occur as option and level names
Lower(atom) == IF atom = "PORT" THEN "port" ELSE atom
Upper(atom) == IF atom = "debug" THEN "DEBUG"
               ELSE IF atom = "info" THEN "INFO" ELSE atom

\* The names for which getattr(logging, name) is a log level
LoggingLevels == {"DEBUG", "INFO", "WARNING", "ERROR", "CRITICAL"}

SingleChar == {SP, ".", "=", "-", "_", "'", "|", ">", "&"}

\* re.match(r"general.log_level=(\w+)", token)
LogLevelMatch(tok) ==
    /\ Len(tok) >= 5
    /\ tok[1] = "general" /\ tok[2] \in SingleChar /\ tok[3] = "log_level"
    /\ tok[4] = "=" /\ IsWord(tok[5])

\* re.match(r"(\w+)\.(\w+)=(.*)", token)
IsAssignment(tok) ==
    /\ Len(tok) >= 4
    /\ IsWord(tok[1]) /\ tok[2] = "." /\ IsWord(tok[3]) /\ tok[4] = "="

\* The methods of class Actions whose name starts with action_, in the
\* order of dir(Actions) (alphabetical)
DirActions ==
    << <<"action", "_", "get", "_", "data">>, <<"action", "_", "index">>,
       <<"action", "_", "show", "_", "config">>, <<"action", "_", "start">>,
       <<"action", "_", "status">>, <<"action", "_", "stop">> >>

\* main's action_names
action_names ==
    [k \in 1..Len(DirActions) |-> Replace(From(DirActions[k], 3), "_", <<"-">>)]

IsActionName(tok) == \E k \in 1..Len(action_names) : action_names[k] = tok

\* f"action_{action_name.replace('-', '_')}"
MethodOf(tok) == <<"action", "_">> \o Replace(tok, "-", <<"_">>)

\* The action methods of class Actions in the order of their definition
DefinedActions ==
    << <<"action", "_", "show", "_", "config">>, <<"action", "_", "get", "_", "data">>,
       <<"action", "_", "index">>, <<"action", "_", "start">>,
       <<"action", "_", "stop">>, <<"action", "_", "status">> >>

\* method.rank as @track_action_rank sets it: the value of the counter when
\* the method is defined
rank(method) ==
    (CHOOSE k \in 1..Len(DefinedActions) : DefinedActions[k] = method) - 1

\* sorted(methods, key=rank) for methods of distinct ranks
SortByRank(methods) ==
    [k \in 1..Len(methods) |->
        CHOOSE m \in {methods[i] : i \in 1..Len(methods)} :
            Cardinality({i \in 1..Len(methods) : rank(methods[i]) < rank(m)}) = k - 1]

\* The action names of setup_autocompletion_cmd (inspect.getmembers lists
\* the methods by name, as dir does)
completion_names ==
    [k \in 1..Len(DirActions) |->
        Replace(From(SortByRank(DirActions)[k], 3), "_", <<"-">>)]

\* sep.join(names)
RECURSIVE Join(_, _)
Join(names, sep) ==
    IF names = << >> THEN << >>
    ELSE IF Len(names) = 1 THEN names[1]
    ELSE names[1] \o sep \o Join(Tail(names), sep)

\* ExtendedInterpolation.before_set rejects a "$" that starts no reference
BadInterpolation(value) == \E k \in 1..Len(value) : value[k] = "$x"

\* Mutant of set_config: only the section is checked.
set_configNoOptionCheck(cfg, section, option, value) ==
    IF ~HasSection(cfg, section)
    THEN [ok |-> FALSE, msg |-> "no section", cfg |-> cfg]
    ELSE IF BadInterpolation(value)
    THEN [ok |-> FALSE, msg |-> "ValueError", cfg |-> cfg]
    ELSE [ok |-> TRUE, msg |-> "", cfg |-> Put(cfg, section, Lower(option), value)]

\* Actions.set_config together with the `except ValueError` of main
set_config(cfg, section, option, value) ==
    IF ~HasSection(cfg, section)
    THEN [ok |-> FALSE, msg |-> "no section", cfg |-> cfg]
    ELSE IF ~HasOption(cfg, section, Lower(option))
    THEN [ok |-> FALSE, msg |-> "no option", cfg |-> cfg]
    ELSE IF BadInterpolation(value)
    THEN [ok |-> FALSE, msg |-> "ValueError", cfg |-> cfg]
    ELSE [ok |-> TRUE, msg |-> "", cfg |-> Put(cfg, section, Lower(option), value)]

\* Mutant of ExitAfter: a domain failure is reported and the loop goes on.
ExitAfterNoDomain(outcome) ==
    IF outcome \in {"exit", "unexpected"} THEN "1" ELSE "none"

\* Mutant of ExitAfter: the handler of ActionException ends the run with
\* status 0.
ExitAfterDomainZero(outcome) ==
    IF outcome \in {"exit", "unexpected"} THEN "1"
    ELSE IF outcome = "domain" THEN "0" ELSE "none"

\* What main does after a token: sys.exit(1) in set_config and for an unknown
\* action ("exit"), sys.exit(1) for an ActionException ("domain"), the
\* re-raised exception ("unexpected"); otherwise the loop goes on.
ExitAfter(outcome) ==
    IF outcome \in {"exit", "domain", "unexpected"} THEN "1" ELSE "none"

-----------------------------------------------------------------------------
(* Bounds and the inputs of the model *)

MaxTokens == 2
MaxHostFacts == 1

\* The tokens an operator may type
TokenSet ==
    { <<"show", "-", "config">>, <<"get", "-", "data">>, <<"index">>,
      <<"start">>, <<"stop">>, <<"status">>, <<"show">>, <<"restart">>,
      <<"server", ".", "PORT", "=", "7002">>,
      <<"server", ".", "name", "=", "x">>,
      <<"nosuch", ".", "port", "=", "1">>,
      <<"server", ".", "nosuch", "=", "1">>,
      <<"server", ".", "port", "=", "$x">>,
      <<"general", ".", "log_level", "=", "debug">> }

\* The tokens of the batches that mix assignments and actions: the actions,
\* an assignment of a plain value and one of a value with the escape $$
AssignTokens ==
    { <<"show", "-", "config">>, <<"get", "-", "data">>, <<"index">>,
      <<"start">>, <<"stop">>, <<"status">>, <<"show">>,
      <<"server", ".", "PORT", "=", "7002">>,
      <<"server", ".", "access_token", "=", "$$">> }

DatasetName == <<"wikidata">>
InputFile == <<"wikidata.ttl">>
DataSizes == {1, 11}

\* A Qleverfile that sets every option without a built-in default that the
\* actions read.
MainQleverfile(use_docker) ==
    [default |-> [name |-> DatasetName],
     sect |-> [data   |-> [get_data_cmd |-> <<"wget", SP, "URL">>,
                           index_description |-> <<"Wikidata">>],
               index  |-> [file_names |-> InputFile,
                           cat_files |-> <<"cat", SP>> \o InputFile,
                           settings_json |-> <<"{}">>],
               server |-> [port |-> <<"7001">>,
                           access_token |-> <<"tok">>,
                           memory_for_queries_gb |-> <<"5">>],
               docker |-> [use_docker |-> IF use_docker THEN <<"true">>
                                          ELSE <<"false">>]]]

\* What may be true of the host before the script runs, besides its processes
HostFacts == {"container", "docker_down", "probe_timeout",
              "no_net_connections", "listener", "no_binary", "use_docker",
              "indexed"}

ConsistentFacts(F) ==
    "docker_down" \in F => ("container" \notin F /\ "probe_timeout" \notin F)

\* The sets of at most n facts that can hold together
FactsUpTo(n) ==
    {F \in SUBSET HostFacts : Cardinality(F) <= n /\ ConsistentFacts(F)}

\* The initial host differs from a clean host (nothing indexed, nothing
\* running, docker and the binaries installed) in at most MaxHostFacts facts
\* and processes.
InitialFacts == FactsUpTo(MaxHostFacts)

ProcKinds == {"other", "unreadable", "lookalike", "lookalike_root"}

\* A process of the host that the script did not start
HostProc(kind, pid) ==
    [pid |-> pid,
     cmdline |-> IF kind = "other" THEN <<"bash">>
                 ELSE IF kind = "unreadable" THEN << >>
                 ELSE <<"ServerMain", ".bak", SP, "-i", SP, "/data/">> \o DatasetName,
     readable |-> kind # "unreadable",
     killable |-> kind # "lookalike_root",
     ready |-> FALSE,
     port |-> << >>]

Rec(tok, show, outcome, msg, printed, ran, wrote, killed, probed, rows) ==
    [tok |-> tok, show |-> show, outcome |-> outcome, msg |-> msg,
     printed |-> printed, ran |-> ran, wrote |-> wrote, killed |-> killed,
     probed |-> probed, rows |-> rows]

-----------------------------------------------------------------------------
(* Start of the process: main up to the loop over the tokens *)

\* 1 if main consumes the first token as the log level, else 0
Lead(args) == IF Len(args) > 0 /\ LogLevelMatch(args[1]) THEN 1 ELSE 0

\* Mutant of TrailingShow: the first token of the batch is looked at.
TrailingShowFirst(args) ==
    Len(args) - Lead(args) > 0 /\ args[Lead(args) + 1] = <<"show">>

\* `len(sys.argv) > 1 and sys.argv[-1] == "show"` after the log level token
\* was shifted out
TrailingShow(args) ==
    Len(args) - Lead(args) > 0 /\ args[Len(args)] = <<"show">>

\* The log level main and Actions.__init__ arrive at ("" when the name is no
\* attribute of logging, which ends the process with status 1)
StartupLogLevel(args, cfg) ==
    LET wanted == IF Lead(args) = 1 THEN Upper(args[1][5])
                  ELSE Upper(Get(cfg, "general", "log_level")[1])
    IN  IF wanted \in LoggingLevels THEN wanted ELSE ""

\* The state in which main reaches its loop, for a host that differs from a
\* clean one in at most nf facts and processes and a batch of at most nt tokens
InitTokens(nf, nt, tokens) ==
    \E F \in FactsUpTo(nf) :
    \E np \in 0..(nf - Cardinality(F)) :
    \E kinds \in [1..np -> ProcKinds] :
        /\ qleverfile = MainQleverfile("use_docker" \in F)
        /\ config = InjectDefaults(qleverfile)
        /\ docker_up = ("docker_down" \notin F)
        /\ bin_installed = ("no_binary" \notin F)
        /\ net_connections_enabled = ("no_net_connections" \notin F)
        /\ docker_enabled = (docker_up /\ "probe_timeout" \notin F)
        /\ binaries_work = bin_installed
        /\ files = IF "indexed" \in F
                   THEN Touch(<< >>, DatasetName \o <<".index.", "pso">>,
                              <<"index">>, 1)
                   ELSE << >>
        /\ procs = [k \in 1..np |-> HostProc(kinds[k], k)]
        /\ containers = IF "container" \in F
                        THEN {[name |-> <<"qlever.server.">> \o DatasetName,
                               port |-> <<"7001">>, ready |-> TRUE]}
                        ELSE {}
        /\ listeners = IF "listener" \in F THEN {7001} ELSE {}
        /\ start_port = << >>
        /\ tail_running = FALSE
        /\ history = << >>
        /\ \E na \in 0..nt :
           \E args \in [1..na -> tokens] :
              /\ argv = args
              /\ idx = Lead(args)
              /\ only_show = TrailingShow(args)
              /\ log_level = StartupLogLevel(args, config)
              /\ exit_code = IF log_level = "" THEN "1" ELSE "none"
              /\ stage = IF log_level = "" THEN "done" ELSE "dispatch"

InitWith(nf, nt) == InitTokens(nf, nt, TokenSet)

Init == InitWith(MaxHostFacts, MaxTokens)

\* The same start with one more host fact and one token less: hosts on which
\* several things are unusual at once, and a short batch
InitHost == InitWith(MaxHostFacts + 1, MaxTokens - 1)

-----------------------------------------------------------------------------
(* The loop `for action_name in sys.argv[1:]` of main: one step per token *)

NumTokens == Len(argv) - (IF only_show THEN 1 ELSE 0)
Running == stage = "dispatch" /\ exit_code = "none" /\ idx < NumTokens
Tok == argv[idx + 1]
IsAction(method) ==
    Running /\ ~IsAssignment(Tok) /\ IsActionName(Tok) /\ MethodOf(Tok) = method

\* What every step of the loop does to main's own variables
Dispatched(rec) ==
    /\ idx' = idx + 1
    /\ history' = Append(history, rec)
    /\ exit_code' = ExitAfter(rec.outcome)
    /\ stage' = IF exit_code' # "none" THEN "done"
                ELSE IF rec.outcome = "polling" THEN "polling" ELSE "dispatch"
    /\ UNCHANGED <<argv, only_show, log_level, qleverfile, envvars>>

\* A token of the form section.option=value
SetConfig ==
    /\ Running /\ IsAssignment(Tok)
    /\ LET r == set_config(config, Tok[1], Tok[3], From(Tok, 5))
       IN  /\ config' = r.cfg
           /\ Dispatched(Rec(Tok, only_show, IF r.ok THEN "ok" ELSE "exit", r.msg,
                             << >>, << >>, {}, {}, << >>, << >>))
    /\ UNCHANGED <<host, start_port>>

\* A token that is neither an assignment nor in action_names
UnknownAction ==
    /\ Running /\ ~IsAssignment(Tok) /\ ~IsActionName(Tok)
    /\ Dispatched(Rec(Tok, only_show, "exit", "unknown action",
                      Join(action_names, <<",", SP>>),
                      << >>, {}, {}, << >>, << >>))
    /\ UNCHANGED <<config, host, start_port>>

\* Actions.action_show_config
ShowConfig ==
    /\ IsAction(<<"action", "_", "show", "_", "config">>)
    /\ Dispatched(Rec(Tok, only_show, "ok", "", << >>, << >>, {}, {}, << >>, << >>))
    /\ UNCHANGED <<config, host, start_port>>

\* Mutant of Executes: the command is handed to the shell without its first
\* word.
ExecutesUnwrapped(cmdline) == <<From(cmdline, 3)>>

\* os.system(cmdline) / subprocess.run(cmdline, shell=True): the commands
\* an action hands to the shell
Executes(cmdline) == <<cmdline>>

\* Actions.action_get_data
GetData ==
    /\ IsAction(<<"action", "_", "get", "_", "data">>)
    /\ LET cmdline == Get(config, "data", "get_data_cmd")
       IN  IF cmdline = << >>
           THEN /\ Dispatched(Rec(Tok, only_show, "ok", "No GET_DATA_CMD",
                                  << >>, << >>, {}, {}, << >>, << >>))
                /\ UNCHANGED files
           ELSE IF only_show
           THEN /\ Dispatched(Rec(Tok, only_show, "ok", "", cmdline,
                                  << >>, {}, {}, << >>, << >>))
                /\ UNCHANGED files
           ELSE /\ \E gb \in DataSizes :
                      files' = Touch(files, InputFile, <<"data">>, gb)
                /\ Dispatched(Rec(Tok, only_show, "ok", "", cmdline,
                                  Executes(cmdline), {}, {}, << >>, << >>))
    /\ UNCHANGED <<config, procs, containers, listeners, docker_up,
                   bin_installed, tail_running, start_port>>

\* What the host does with the command line of action_index: the index
\* builder writes the index files if its backend is there, tee writes the log.
RunIndex(fs, cmdline, name) ==
    LET docker == Head(cmdline) = "docker"
        logged == IF docker /\ ~docker_up THEN fs
                  ELSE Touch(fs, name \o <<".index-log.txt">>, <<"log">>, 0)
    IN  IF (docker /\ docker_up) \/ (~docker /\ bin_installed)
        THEN Touch(logged, name \o <<".index.", "pso">>, <<"index">>, 1)
        ELSE logged

\* Actions.action_index
Index ==
    /\ IsAction(<<"action", "_", "index">>)
    /\ LET name     == NameOf(config)
           settings == name \o <<".settings.json">>
           written  == Touch(files, settings, Get(config, "index", "settings_json"), 0)
           cmdline  == IndexCmdline(config, written)
       IN  IF only_show
           THEN /\ files' = written
                /\ Dispatched(Rec(Tok, only_show, "ok", "", cmdline,
                                  << >>, {settings}, {}, << >>, << >>))
           ELSE IF IndexFilesExist(written, name)
           THEN /\ files' = written
                /\ Dispatched(Rec(Tok, only_show, "domain", "index files exist",
                                  cmdline, << >>, {settings}, {}, << >>, << >>))
           ELSE /\ files' = RunIndex(written, cmdline, name)
                /\ Dispatched(Rec(Tok, only_show, "ok", "", cmdline,
                                  Executes(cmdline), {settings}, {}, << >>, << >>))
    /\ UNCHANGED <<config, procs, containers, listeners, docker_up,
                   bin_installed, tail_running, start_port>>

\* What the host does with the command line of action_start: the shell
\* creates the log file and starts the server, or docker creates the container.
Launched(cmdline) ==
    IF Head(cmdline) = "docker"
    THEN /\ containers' =
              IF docker_up /\ \A c \in containers :
                                c.name # ArgAfter(cmdline, "--name")
              THEN containers \cup {[name |-> ArgAfter(cmdline, "--name"),
                                     port |-> PublishedPort(cmdline),
                                     ready |-> FALSE]}
              ELSE containers
         /\ UNCHANGED <<procs, files>>
    ELSE /\ procs' =
              IF bin_installed
              THEN Append(procs, [pid |-> NextPid(procs),
                                  cmdline |-> NativeArgv(cmdline),
                                  readable |-> TRUE, killable |-> TRUE,
                                  ready |-> FALSE,
                                  port |-> ArgAfter(NativeArgv(cmdline), "-p")])
              ELSE procs
         /\ files' = Touch(files, ArgAfter(cmdline, ">"), <<"log">>, 0)
         /\ UNCHANGED containers

\* Actions.action_start up to the loop `while not self.alive_check(port)`
Start ==
    /\ IsAction(<<"action", "_", "start">>)
    /\ LET cmdline == StartCmdline(config)
           port    == Get(config, "server", "port")
           verdict == StartPrecondition(alive_check(procs, containers, port),
                                        net_connections_enabled, port, listeners)
       IN  IF only_show
           THEN /\ Dispatched(Rec(Tok, only_show, "ok", "", cmdline,
                                  << >>, {}, {}, << >>, << >>))
                /\ UNCHANGED <<files, procs, containers, tail_running, start_port>>
           ELSE IF verdict # "launch"
           THEN /\ Dispatched(Rec(Tok, only_show, "domain", verdict, cmdline,
                                  << >>, {}, {}, <<port>>, << >>))
                /\ UNCHANGED <<files, procs, containers, tail_running, start_port>>
           ELSE /\ Launched(cmdline)
                /\ tail_running' = TRUE
                /\ start_port' = port
                /\ Dispatched(Rec(Tok, only_show, "polling", "", cmdline,
                                  Executes(cmdline), {}, {}, <<port>>, << >>))
    /\ UNCHANGED <<config, listeners, docker_up, bin_installed>>

\* The requests action_start sends once the server answers
MetadataRequests(cfg, port) ==
    LET curl(field) ==
            <<"curl", SP, "-Gs", SP, "http://localhost:">> \o port \o <<"/api">>
            \o <<SP, "--data-urlencode", SP, "\"",
                 IF field = "index_description" THEN "index-description"
                 ELSE "text-description", "=">>
            \o Get(cfg, "data", field) \o <<"\"">>
            \o <<SP, "--data-urlencode", SP, "\"", "access-token", "=">>
            \o Get(cfg, "server", "access_token") \o <<"\"">>
            \o <<SP, ">", SP, "/dev/null">>
    IN  (IF "index_description" \in Options(cfg, "data")
         THEN <<curl("index_description")>> ELSE << >>)
        \o (IF "text_description" \in Options(cfg, "data")
            THEN <<curl("text_description")>> ELSE << >>)

\* Actions.action_start from the moment alive_check(port) returns True
StartReady ==
    /\ stage = "polling"
    /\ alive_check(procs, containers, start_port)
    /\ LET n == Len(history)
       IN  history' = [history EXCEPT
                ![n].outcome = "ok",
                ![n].ran = @ \o MetadataRequests(config, start_port),
                ![n].probed = @ \o <<start_port>>]
    /\ tail_running' = FALSE
    /\ stage' = "dispatch"
    /\ UNCHANGED <<cfgvars, envvars, argv, idx, only_show, log_level, exit_code,
                   start_port, files, procs, containers, listeners, docker_up,
                   bin_installed>>

\* An interrupt (KeyboardInterrupt) reaches action_start while it polls or
\* sends the metadata requests. Nothing catches it (main catches Exception
\* only), so the process ends with a traceback and tail_proc.terminate() is
\* not reached; the tail process ends all the same when the interrupt is a
\* terminal's, which delivers it to the whole foreground process group.
Interrupt ==
    /\ stage = "polling"
    /\ \E group \in BOOLEAN : tail_running' = (tail_running /\ ~group)
    /\ LET n == Len(history)
       IN  history' = [history EXCEPT ![n].outcome = "unexpected",
                                      ![n].msg = "KeyboardInterrupt"]
    /\ exit_code' = "1"
    /\ stage' = "done"
    /\ UNCHANGED <<cfgvars, envvars, argv, idx, only_show, log_level,
                   start_port, files, procs, containers, listeners, docker_up,
                   bin_installed>>

\* The server that action_start launched finishes loading and answers on
\* its port, which it can bind only if no other process listens there.
ServerReady ==
    /\ \/ \E k \in 1..Len(procs) :
            /\ procs[k].port # << >> /\ ~procs[k].ready
            /\ \A n \in listeners : PortText(n) # procs[k].port
            /\ procs' = [procs EXCEPT ![k].ready = TRUE]
            /\ UNCHANGED containers
       \/ \E c \in containers :
            /\ ~c.ready
            /\ \A n \in listeners : PortText(n) # c.port
            /\ containers' = (containers \ {c}) \cup {[c EXCEPT !.ready = TRUE]}
            /\ UNCHANGED procs
    /\ UNCHANGED <<cfgvars, envvars, mainvars, files, listeners, docker_up,
                   bin_installed, tail_running>>

\* Actions.action_stop
Stop ==
    /\ IsAction(<<"action", "_", "stop">>)
    /\ LET cname      == Get(config, "docker", "container_server")
           docker_cmd == <<"docker", SP, "stop", SP>> \o cname
                         \o <<SP, "&&", SP, "docker", SP, "rm", SP>> \o cname
           torn_down  == docker_enabled /\ docker_up
                         /\ \E c \in containers : c.name = cname
           tried      == IF docker_enabled THEN <<docker_cmd>> ELSE << >>
           scan       == StopScan(config, procs, 1, Unbound)
       IN  IF only_show
           THEN /\ Dispatched(Rec(Tok, only_show, "ok", "", << >>,
                                  << >>, {}, {}, << >>, << >>))
                /\ UNCHANGED <<procs, containers>>
           ELSE IF torn_down
           THEN /\ containers' = {c \in containers : c.name # cname}
                /\ Dispatched(Rec(Tok, only_show, "ok", "container removed", << >>,
                                  tried, {}, {}, << >>, << >>))
                /\ UNCHANGED procs
           ELSE IF scan.res = "killed"
           THEN /\ procs' = RemoveAt(procs, scan.at)
                /\ Dispatched(Rec(Tok, only_show, "ok", "killed", << >>,
                                  tried, {}, {procs[scan.at].pid}, << >>, << >>))
                /\ UNCHANGED containers
           ELSE /\ Dispatched(Rec(Tok, only_show,
                                  IF scan.res = "NameError" THEN "unexpected"
                                  ELSE "domain",
                                  scan.res, << >>, tried, {}, {}, << >>, << >>))
                /\ UNCHANGED <<procs, containers>>
    /\ UNCHANGED <<config, files, listeners, docker_up, bin_installed,
                   tail_running, start_port>>

\* Actions.action_status
Status ==
    /\ IsAction(<<"action", "_", "status">>)
    /\ LET rows == StatusRows(procs)
       IN  IF only_show
           THEN Dispatched(Rec(Tok, only_show, "ok", "", << >>,
                               << >>, {}, {}, << >>, << >>))
           ELSE Dispatched(Rec(Tok, only_show, "ok",
                               IF rows = << >> THEN "No processes found" ELSE "",
                               << >>, << >>, {}, {}, << >>,
                               IF rows = << >> THEN << >> ELSE <<"header">> \o rows))
    /\ UNCHANGED <<config, host, start_port>>

\* The end of main: every token was dealt with
Finish ==
    /\ stage = "dispatch" /\ exit_code = "none" /\ idx >= NumTokens
    /\ exit_code' = "0"
    /\ stage' = "done"
    /\ UNCHANGED <<cfgvars, envvars, host, argv, idx, only_show, log_level,
                   start_port, history>>

Next ==
    \/ SetConfig \/ UnknownAction \/ ShowConfig \/ GetData \/ Index
    \/ Start \/ StartReady \/ Interrupt \/ ServerReady \/ Stop \/ Status
    \/ Finish

Spec == Init /\ [][Next]_vars

SpecHost == InitHost /\ [][Next]_vars

\* The poll of action_start (`while not self.alive_check(port):
\* time.sleep(1)`) probes again every second for as long as the script runs:
\* a server that keeps answering is seen by the next probe.
SpecLive == InitHost /\ [][Next]_vars /\ WF_vars(StartReady)

\* A clean host and a batch of one more token, made of actions and
\* successful assignments
InitAssign == InitTokens(MaxHostFacts - 1, MaxTokens + 1, AssignTokens)

SpecAssign == InitAssign /\ [][Next]_vars

-----------------------------------------------------------------------------
(* Default injection on its own: every parsed Qleverfile of a bounded set is *)
(* loaded, and the injection is then applied a second time.                  *)

LoadValues == {<< >>, <<"custom">>}

\* The options a parsed Qleverfile may or may not set in the model: options
\* of the defaults table, and server.port, which has no built-in default.
LoadOptions ==
    [server |-> {"binary", "port"}, docker |-> {"container_server"},
     ui |-> {"port"}]

SectionChoices(section) ==
    UNION {[S -> LoadValues] : S \in SUBSET LoadOptions[section]}

LoadDefaultSections ==
    { [name |-> DatasetName],
      [name |-> DatasetName, binary |-> <<"MyMain">>],
      [name |-> DatasetName, binary |-> << >>] }

LoadQleverfiles ==
    UNION { { [default |-> d, sect |-> f] :
                d \in LoadDefaultSections,
                f \in {g \in [D -> UNION {SectionChoices(x) : x \in D}] :
                          \A x \in D : g[x] \in SectionChoices(x)} }
            : D \in SUBSET DOMAIN LoadOptions }

InitLoad ==
    /\ qleverfile \in LoadQleverfiles
    /\ config = qleverfile
    /\ stage = "parsed"
    /\ argv = << >> /\ idx = 0 /\ only_show = FALSE
    /\ log_level = "" /\ exit_code = "none"
    /\ net_connections_enabled = TRUE /\ docker_enabled = TRUE
    /\ binaries_work = TRUE
    /\ files = << >> /\ procs = << >> /\ containers = {} /\ listeners = {}
    /\ docker_up = TRUE /\ bin_installed = TRUE
    /\ start_port = << >> /\ tail_running = FALSE /\ history = << >>

\* The loop `for section in defaults` of Actions.__init__
LoadDefaults ==
    /\ stage = "parsed"
    /\ config' = InjectDefaults(config)
    /\ stage' = "loaded"
    /\ UNCHANGED <<qleverfile, envvars, host, argv, idx, only_show, log_level,
                   exit_code, start_port, history>>

\* The same loop, run once more on the configuration it produced
Remerge ==
    /\ stage = "loaded"
    /\ config' = InjectDefaults(config)
    /\ stage' = "remerged"
    /\ UNCHANGED <<qleverfile, envvars, host, argv, idx, only_show, log_level,
                   exit_code, start_port, history>>

NextLoad == LoadDefaults \/ Remerge

SpecLoad == InitLoad /\ [][NextLoad]_vars

-----------------------------------------------------------------------------
(* Properties *)

Failed(rec) == rec.outcome \in {"exit", "domain", "unexpected"}
IsTok(rec, name) == rec.tok = name
LastRec == history[Len(history)]
LastRecNext == history'[Len(history')]

\* A step of main's loop that runs an action (and not an assignment)
ActionStep ==
    Running /\ ~IsAssignment(Tok) /\ IsActionName(Tok) /\ idx' = idx + 1

\* C1: every action that runs in rendering-only mode leaves the host as it
\* was (no file, process or container is created, changed or removed) and
\* issues no liveness probe.
C1_ShowModeLeavesHostUnchanged ==
    [][(ActionStep /\ only_show) =>
            (host' = host /\ LastRecNext.probed = << >>)]_vars

\* C2: a start that is not rendering-only and finds the liveness probe on the
\* configured port answered ends in a domain error and launches nothing,
\* whether or not the port scan is available.
C2_StartNeverLaunchesWhileAlive ==
    [][(IsAction(<<"action", "_", "start">>) /\ ~only_show
         /\ alive_check(procs, containers, Get(config, "server", "port")))
        => (/\ LastRecNext.outcome = "domain"
            /\ LastRecNext.ran = << >>
            /\ stage' = "done" /\ exit_code' = "1"
            /\ host' = host)]_vars

C2_Witness ==
    /\ history # << >>
    /\ IsTok(LastRec, <<"start">>) /\ ~LastRec.show
    /\ LastRec.msg = "already running"
    /\ ~net_connections_enabled

\* C3: when a start that is not rendering-only has succeeded and the next
\* token is a stop, that stop succeeds and afterwards nothing answers the
\* liveness probe on the configured port.
C3_StopAfterStartStopsServer ==
    \A k \in 1..(Len(history) - 1) :
        (/\ IsTok(history[k], <<"start">>) /\ ~history[k].show
         /\ history[k].outcome = "ok"
         /\ IsTok(history[k + 1], <<"stop">>)
         /\ k + 1 = Len(history))
        => (/\ history[k + 1].outcome = "ok"
            /\ ~alive_check(procs, containers, Get(config, "server", "port")))

\* C4: an index that is not rendering-only and finds <name>.index.* files
\* ends in a domain error, runs no command and leaves the index files alone.
C4_IndexRefusesExistingIndex ==
    [][(IsAction(<<"action", "_", "index">>) /\ ~only_show
         /\ GlobIndexFiles(files, NameOf(config)) # {})
        => (/\ LastRecNext.outcome = "domain"
            /\ LastRecNext.ran = << >>
            /\ stage' = "done" /\ exit_code' = "1"
            /\ \A f \in GlobIndexFiles(files, NameOf(config)) :
                  f \in DOMAIN files' /\ files'[f] = files[f]
            /\ GlobIndexFiles(files', NameOf(config))
                  = GlobIndexFiles(files, NameOf(config)))]_vars

C4_Witness ==
    /\ history # << >>
    /\ IsTok(LastRec, <<"index">>) /\ ~LastRec.show
    /\ LastRec.outcome = "domain"
    /\ GlobIndexFiles(files, NameOf(config)) # {}

\* No container carries the configured name and no process has a command
\* line that matches the pattern of stop.
NothingToStop ==
    /\ \A c \in containers : c.name # Get(config, "docker", "container_server")
    /\ \A k \in 1..Len(procs) : ~StopMatches(config, procs[k].cmdline)

\* C5: a stop that is not rendering-only on a host with nothing to stop ends
\* in the domain error "nothing to stop" and terminates no process.
C5_StopWithNothingToStopIsDomainError ==
    [][(IsAction(<<"action", "_", "stop">>) /\ ~only_show /\ NothingToStop)
        => (/\ LastRecNext.outcome = "domain"
            /\ LastRecNext.msg = "none"
            /\ procs' = procs)]_vars

\* C6: the tokens are dealt with in the order given, one record each, and a
\* token that fails is the last one dealt with: the process ends there, and
\* from then on neither the configuration nor the record of what ran changes.
C6_InOrder ==
    /\ Len(history) = idx - Lead(argv)
    /\ \A k \in 1..Len(history) : history[k].tok = argv[Lead(argv) + k]
    /\ \A k \in 1..Len(history) :
          Failed(history[k]) => (k = Len(history) /\ stage = "done")

C6_SequentialStopAtFirstFailure ==
    /\ []C6_InOrder
    /\ [][(stage = "done") => (config' = config /\ history' = history
                               /\ idx' = idx /\ files' = files)]_vars

C6_Witness ==
    /\ history # << >> /\ Failed(LastRec)
    /\ stage = "done"
    /\ idx < NumTokens
    /\ IsActionName(argv[idx + 1])

\* A token that cannot succeed whatever the host: an unknown action name or
\* an assignment to an unknown section or option.
InvalidToken(tok) ==
    LET cfg == InjectDefaults(qleverfile)
    IN  IF IsAssignment(tok)
        THEN ~HasSection(cfg, tok[1]) \/ ~HasOption(cfg, tok[1], Lower(tok[3]))
        ELSE ~IsActionName(tok)

\* C7: when the process has ended, its exit status is zero exactly if every
\* token of the batch was dealt with and none failed; it is not zero when
\* some token is invalid or some action ended in a failure.
C7_ExitStatus ==
    stage = "done" =>
        /\ exit_code \in {"0", "1"}
        /\ exit_code = "0" <=>
              (/\ Len(history) = NumTokens - Lead(argv)
               /\ \A k \in 1..Len(history) : history[k].outcome = "ok")
        /\ (\E k \in (Lead(argv) + 1)..NumTokens : InvalidToken(argv[k]))
              => exit_code = "1"
        /\ (\E k \in 1..Len(history) : Failed(history[k])) => exit_code = "1"

C7_Witness ==
    /\ stage = "done" /\ exit_code = "1"
    /\ history # << >> /\ LastRec.outcome = "domain"

\* C8: the (section, option) keys of the configuration are those it had
\* after load: they are so at the start of the batch and no step changes
\* them; a step that ends in a failed assignment leaves the configuration as
\* it was.
C8_KeysFixed ==
    Keys(config) = Keys(InjectDefaults(qleverfile))

C8_SetNeverCreates ==
    /\ C8_KeysFixed
    /\ [][Keys(config') = Keys(config)]_config
    /\ [][(Running /\ IsAssignment(Tok) /\ Failed(LastRecNext))
            => config' = config]_vars

C8_Witness ==
    /\ \E k \in 1..Len(history) :
          /\ IsTok(history[k], <<"server", ".", "name", "=", "x">>)
          /\ history[k].outcome = "ok"
    /\ history # << >> /\ LastRec.msg = "no option"

\* An option that the parsed Qleverfile gives for a section (in the section
\* itself or in DEFAULT)
Explicit(qf, section, option) ==
    \/ option \in DOMAIN qf.default
    \/ HasSection(qf, section) /\ option \in DOMAIN qf.sect[section]

\* The value the parsed Qleverfile gives: the section's own, else DEFAULT's
Given(qf, section, option) ==
    IF HasSection(qf, section) /\ option \in DOMAIN qf.sect[section]
    THEN qf.sect[section][option] ELSE qf.default[option]

\* C9: after load, an option of the defaults table that the Qleverfile gives
\* explicitly has the given value (the empty string included); one that it
\* does not give has the built-in default.
C9_ExplicitValueKept ==
    stage = "loaded" =>
        \A s \in DOMAIN Defaults(DatasetName) :
            \A o \in DOMAIN Defaults(DatasetName)[s] :
                Get(config, s, o) = IF Explicit(qleverfile, s, o)
                                    THEN Given(qleverfile, s, o)
                                    ELSE Defaults(DatasetName)[s][o]

\* C10: injecting the defaults into a configuration that already went
\* through the injection changes nothing.
C10_MergeIdempotent ==
    stage = "remerged" => config = InjectDefaults(qleverfile)

C10_Witness ==
    /\ stage = "remerged"
    /\ ~HasSection(qleverfile, "docker")
    /\ HasSection(qleverfile, "server")
    /\ "binary" \in DOMAIN qleverfile.sect["server"]
    /\ qleverfile.sect["server"]["binary"] = << >>
    /\ Get(config, "server", "binary") = <<"ServerMain">>
    /\ Get(config, "docker", "image") = <<"adfreiburg/qlever">>

\* The (section, option) pairs the actions read with self.config[s][o]
ActionReads ==
    {<<"data", "get_data_cmd">>,
     <<"index", "file_names">>, <<"index", "settings_json">>,
     <<"index", "cat_files">>, <<"index", "binary">>,
     <<"index", "only_pso_and_pos_permutations">>, <<"index", "with_text_index">>,
     <<"docker", "use_docker">>, <<"docker", "container_indexer">>,
     <<"docker", "container_server">>, <<"docker", "image">>,
     <<"server", "binary">>, <<"server", "num_threads">>, <<"server", "port">>,
     <<"server", "memory_for_queries_gb">>, <<"server", "cache_max_size_gb">>,
     <<"server", "cache_max_size_gb_single_entry">>,
     <<"server", "cache_max_num_entries">>, <<"server", "access_token">>,
     <<"server", "only_pso_and_pos_permutations">>, <<"server", "no_patterns">>,
     <<"server", "with_text_index">>, <<"general", "log_level">>}

\* C11: after load, every section an action refers to exists and every
\* option an action reads is present in the merged view.
C11_ActionOptionsExist ==
    stage = "loaded" =>
        \A p \in ActionReads :
            HasSection(config, p[1]) /\ HasOption(config, p[1], p[2])

\* C12: the probes of check_installation are advisory. A stop that is not
\* rendering-only on a host where the container runtime works and a container
\* with the configured name exists does what it does after a successful
\* probe, whatever the probe said at startup: it removes the container,
\* terminates no process and succeeds.
C12_ProbesAreAdvisory ==
    [][(/\ IsAction(<<"action", "_", "stop">>) /\ ~only_show
        /\ docker_up
        /\ \E c \in containers :
              c.name = Get(config, "docker", "container_server"))
        => (/\ LastRecNext.outcome = "ok"
            /\ \A c \in containers' :
                  c.name # Get(config, "docker", "container_server")
            /\ procs' = procs)]_vars

\* C13: once action_start is over, on whatever path, the log-tailing
\* subprocess it spawned is no longer running.
C13_TailTerminated ==
    stage # "polling" => ~tail_running

\* C14: a start that is not rendering-only, with the port scan available,
\* the liveness probe unanswered and another listener on the configured
\* port, ends in the domain error "port in use" and launches nothing.
C14_StartRefusesOccupiedPort ==
    [][(/\ IsAction(<<"action", "_", "start">>) /\ ~only_show
        /\ net_connections_enabled
        /\ ~alive_check(procs, containers, Get(config, "server", "port"))
        /\ \E n \in listeners : PortText(n) = Get(config, "server", "port"))
        => (/\ LastRecNext.outcome = "domain"
            /\ LastRecNext.msg = "port in use"
            /\ LastRecNext.ran = << >>
            /\ host' = host)]_vars

\* C15: index and start print the same command line in rendering-only mode
\* and in normal mode, namely the one rendered from the configuration (and,
\* for index, the size of the input files), and in normal mode with the
\* preconditions met that printed line is the command that is executed.
C15_ShownIsExecuted ==
    [][/\ IsAction(<<"action", "_", "index">>) =>
            LET settings == NameOf(config) \o <<".settings.json">>
                line == IndexCmdline(config,
                            Touch(files, settings,
                                  Get(config, "index", "settings_json"), 0))
            IN  /\ LastRecNext.printed = line
                /\ LastRecNext.ran =
                      IF only_show \/ LastRecNext.outcome = "domain"
                      THEN << >> ELSE <<line>>
       /\ IsAction(<<"action", "_", "start">>) =>
            LET line == StartCmdline(config)
            IN  /\ LastRecNext.printed = line
                /\ LastRecNext.ran =
                      IF only_show \/ LastRecNext.outcome = "domain"
                      THEN << >> ELSE <<line>>]_vars

C15_Witness ==
    /\ Len(history) = 2
    /\ IsTok(history[1], <<"get", "-", "data">>)
    /\ IsTok(history[2], <<"index">>) /\ ~history[2].show
    /\ history[2].ran = <<history[2].printed>>
    /\ Head(history[2].printed) = "docker"
    /\ \E k \in 1..Len(history[2].printed) : history[2].printed[k] = "ulimit"

\* The batch ends with the token show (a leading log-level token is not part
\* of the batch)
LastTokenIsShow ==
    Len(argv) > Lead(argv) /\ argv[Len(argv)] = <<"show">>

\* C16: the rendering-only mode is on exactly if the last token of the batch
\* is show, every action of the batch runs in that mode (in rendering-only
\* mode it executes no command and terminates no process), and an assignment
\* that succeeds is applied to the configuration in either mode.
C16_ModeOfTheBatch ==
    /\ only_show = LastTokenIsShow
    /\ \A k \in 1..Len(history) :
          /\ history[k].show = LastTokenIsShow
          /\ history[k].show => (history[k].ran = << >> /\ history[k].killed = {})

RankOrder ==
    << <<"show", "-", "config">>, <<"get", "-", "data">>, <<"index">>,
       <<"start">>, <<"stop">>, <<"status">> >>

\* C17: each action method has a rank greater than the ranks of the methods
\* defined before it, and the word list of the shell completion and the list
\* of valid names in the unknown-action message are both in rank order.
C17_ListingsInRankOrder ==
    /\ \A i, j \in 1..Len(DefinedActions) :
          i < j => rank(DefinedActions[i]) < rank(DefinedActions[j])
    /\ completion_names = RankOrder
    /\ \A k \in 1..Len(history) :
          history[k].msg = "unknown action"
             => history[k].printed = Join(RankOrder, <<",", SP>>)

\* C18: a status that is not rendering-only prints "No processes found" and
\* no header when no readable process has a command line that matches the
\* server/indexer pattern; otherwise it prints the header once and then one
\* row per matching process, in the order of the processes. Either way it
\* succeeds, terminates no process and writes no file.
C18_StatusReport ==
    [][(IsAction(<<"action", "_", "status">>) /\ ~only_show) =>
         LET hit == {k \in 1..Len(procs) :
                        procs[k].readable /\ StatusMatches(procs[k].cmdline)}
             rec == LastRecNext
         IN  /\ hit = {} => (rec.msg = "No processes found" /\ rec.rows = << >>)
             /\ hit # {} =>
                  /\ rec.msg = ""
                  /\ Len(rec.rows) = 1 + Cardinality(hit)
                  /\ rec.rows[1] = "header"
                  /\ \A i \in 2..Len(rec.rows) :
                        \E k \in hit :
                           /\ rec.rows[i] = procs[k].pid
                           /\ Cardinality({m \in hit : m < k}) = i - 2
             /\ rec.outcome = "ok" /\ rec.killed = {} /\ rec.wrote = {}
             /\ host' = host]_vars

C18_Witness ==
    /\ Len(history) = 2
    /\ IsTok(history[1], <<"start">>) /\ history[1].outcome = "ok"
    /\ IsTok(history[2], <<"status">>) /\ ~history[2].show
    /\ Len(history[2].rows) = 2
    /\ Len(procs) = 2
    /\ procs[1].cmdline = <<"bash">>

FirstMatch ==
    IF \E k \in 1..Len(procs) :
          procs[k].readable /\ StopMatches(config, procs[k].cmdline)
    THEN CHOOSE k \in 1..Len(procs) :
            /\ procs[k].readable /\ StopMatches(config, procs[k].cmdline)
            /\ \A j \in 1..(k - 1) :
                  ~(procs[j].readable /\ StopMatches(config, procs[j].cmdline))
    ELSE 0

\* C20: a stop that is not rendering-only tries the container teardown first
\* (when the container backend is enabled); when the teardown succeeds it
\* terminates no process; otherwise it terminates the first process whose
\* command line matches, and only that one (when the host refuses the kill,
\* it terminates none and fails with a domain error). No stop terminates
\* more than one process.
C20_StopOrder ==
    [][(IsAction(<<"action", "_", "stop">>) /\ ~only_show) =>
         LET cname     == Get(config, "docker", "container_server")
             torn_down == /\ docker_enabled /\ docker_up
                          /\ \E c \in containers : c.name = cname
             rec       == LastRecNext
         IN  /\ docker_enabled =>
                   (rec.ran # << >> /\
                    StartsWith(rec.ran[1], <<"docker", SP, "stop", SP>> \o cname))
             /\ Cardinality(rec.killed) <= 1
             /\ Len(procs') >= Len(procs) - 1
             /\ torn_down =>
                   (rec.outcome = "ok" /\ rec.killed = {} /\ procs' = procs)
             /\ (~torn_down /\ FirstMatch # 0) =>
                   IF procs[FirstMatch].killable
                   THEN /\ rec.outcome = "ok"
                        /\ rec.killed = {procs[FirstMatch].pid}
                        /\ procs' = RemoveAt(procs, FirstMatch)
                   ELSE /\ rec.outcome = "domain"
                        /\ rec.killed = {} /\ procs' = procs]_vars

\* What a liveness probe on a port finds on the host: a server that is ready
\* and serves that port.
Answers(port) ==
    \/ \E k \in 1..Len(procs) : procs[k].ready /\ procs[k].port = port
    \/ \E c \in containers : c.ready /\ c.port = port

\* C21: after launching the server command, start returns only on a
\* successful liveness probe of the configured port, and the metadata
\* requests are sent only then: while start polls it has run the launch
\* command and nothing else; the step that lets start return is taken with
\* the server answering on the port, and it is that step that adds the
\* metadata requests. While the server does not answer, start stays in its
\* poll (only an interrupt of the script ends it); once the server answers,
\* the poll eventually ends.
C21_StartWaitsForProbe ==
    /\ [](stage = "polling" =>
            /\ start_port = Get(config, "server", "port")
            /\ LastRec.outcome = "polling"
            /\ LastRec.ran = <<StartCmdline(config)>>
            /\ LastRec.probed = <<start_port>>)
    /\ [][stage = "polling" /\ stage' = "dispatch" =>
            /\ Answers(start_port)
            /\ LastRecNext.outcome = "ok"
            /\ LastRecNext.ran =
                  LastRec.ran \o MetadataRequests(config, start_port)
            /\ LastRecNext.probed = <<start_port, start_port>>]_vars
    /\ [][stage = "polling" /\ ~Answers(start_port) =>
            \/ stage' = "polling"
            \/ stage' = "done" /\ LastRecNext.msg = "KeyboardInterrupt"]_vars
    /\ (stage = "polling" /\ Answers(start_port)) ~> (stage # "polling")

\* a start that polled, saw the server answer, sent the metadata request
\* and returned
C21_Witness ==
    /\ stage = "dispatch" /\ history # << >>
    /\ IsTok(LastRec, <<"start">>) /\ ~LastRec.show
    /\ LastRec.outcome = "ok"
    /\ Len(LastRec.ran) = 2
    /\ "index-description" \in {LastRec.ran[2][k] : k \in 1..Len(LastRec.ran[2])}
    /\ LastRec.probed = <<start_port, start_port>>
    /\ Answers(start_port)

\* C22: an index whose precondition fails (index files of the dataset
\* already exist) leaves the files on disk as they were; in particular it
\* neither creates nor overwrites <dataset>.settings.json.
C22_FailedIndexWritesNothing ==
    [][(/\ IsAction(<<"action", "_", "index">>) /\ ~only_show
        /\ IndexFilesExist(files, NameOf(config)))
        => (/\ LastRecNext.outcome = "domain"
            /\ files' = files
            /\ LastRecNext.wrote = {})]_vars

\* C23: whatever the processes of the host, a stop that is not
\* rendering-only terminates only a process whose information can be read
\* and whose own command line matches the stop pattern, and a process whose
\* information cannot be read does not make the action end in an unexpected
\* failure.
C23_StopSkipsUnreadable ==
    [][(IsAction(<<"action", "_", "stop">>) /\ ~only_show)
        => (/\ \A pid \in LastRecNext.killed :
                  \E k \in 1..Len(procs) :
                      /\ procs[k].pid = pid /\ procs[k].readable
                      /\ StopMatches(config, procs[k].cmdline)
            /\ LastRecNext.outcome # "unexpected")]_vars

\* A step of the batch loop that carries out an assignment token
AssignStep ==
    Running /\ IsAssignment(Tok) /\ idx' = idx + 1 /\ LastRecNext.outcome = "ok"

\* The record of the last successful assignment to section.option among the
\* first n records of the batch, 0 if there is none
LastAssignment(n, section, option) ==
    LET J == {j \in 1..n : /\ IsAssignment(history[j].tok)
                           /\ history[j].outcome = "ok"
                           /\ history[j].tok[1] = section
                           /\ Lower(history[j].tok[3]) = option}
    IN  IF J = {} THEN 0 ELSE CHOOSE j \in J : \A i \in J : i <= j

\* The text the batch has given section.option before its k-th record: that
\* of the last successful assignment, else the Qleverfile's
ValueBefore(k, section, option) ==
    LET j == LastAssignment(k - 1, section, option)
    IN  IF j = 0 THEN qleverfile.sect[section][option]
        ELSE From(history[j].tok, 5)

\* `text` holds the option `flag` followed by the word `value`
Renders(text, flag, value) ==
    \E i \in 1..Len(text) :
        /\ text[i] = flag
        /\ StartsWith(From(text, i + 1), <<SP>> \o value \o <<SP>>)

\* a value in which no $ occurs
Plain(value) == \A k \in 1..Len(value) : value[k] \notin {"$", "$$", "$x"}

\* A successful assignment changes the stored value of exactly its option:
\* the sections, DEFAULT and every other stored option are as before, and so
\* are the host and the records of the tokens before it.
AssignmentFrame ==
    [][AssignStep =>
        LET section == Tok[1]
            option  == Lower(Tok[3])
        IN  /\ DOMAIN config'.sect = DOMAIN config.sect
            /\ config'.default = config.default
            /\ config'.sect[section][option] = From(Tok, 5)
            /\ \A s \in DOMAIN config.sect :
               \A o \in DOMAIN config.sect[s] \cup DOMAIN config'.sect[s] :
                  <<s, o>> # <<section, option>> =>
                      /\ o \in DOMAIN config.sect[s]
                      /\ o \in DOMAIN config'.sect[s]
                      /\ config'.sect[s][o] = config.sect[s][o]
            /\ host' = host
            /\ SubSeq(history', 1, Len(history)) = history]_vars

\* C24 as stated: a successful assignment changes exactly its option, and
\* every start of the batch renders and probes the port, and renders the
\* access token, that the last successful assignment before it gave (the
\* Qleverfile's if there was none): an assignment is used by the actions
\* after it and by none before it.
C24_AssignedValueUsedAsGiven ==
    /\ AssignmentFrame
    /\ [](\A k \in 1..Len(history) :
            IsTok(history[k], <<"start">>) =>
                /\ Renders(history[k].printed, "-p",
                           ValueBefore(k, "server", "port"))
                /\ Renders(history[k].printed, "-a",
                           ValueBefore(k, "server", "access_token"))
                /\ history[k].probed # << >> =>
                      history[k].probed[1] = ValueBefore(k, "server", "port"))

\* C24, amended: the same, for the values in which no $ occurs.
C24_PlainValueUsedAsGiven ==
    /\ AssignmentFrame
    /\ [](\A k \in 1..Len(history) :
            IsTok(history[k], <<"start">>) =>
                /\ Renders(history[k].printed, "-p",
                           ValueBefore(k, "server", "port"))
                /\ Plain(ValueBefore(k, "server", "access_token")) =>
                      Renders(history[k].printed, "-a",
                              ValueBefore(k, "server", "access_token"))
                /\ history[k].probed # << >> =>
                      history[k].probed[1] = ValueBefore(k, "server", "port"))

\* a start on the Qleverfile's port, then a successful assignment of another
\* port, then a start that renders and probes the assigned port
C24_Witness ==
    /\ Len(history) = 3
    /\ IsTok(history[1], <<"start">>) /\ history[1].probed[1] = <<"7001">>
    /\ IsAssignment(history[2].tok) /\ history[2].outcome = "ok"
    /\ From(history[2].tok, 5) = <<"7002">>
    /\ IsTok(history[3], <<"start">>)
    /\ Renders(history[3].printed, "-p", <<"7002">>)
    /\ history[3].probed = <<<<"7002">>>>
    /\ config.sect["server"]["port"] = <<"7002">>

====
